---- MODULE Spec2Model ----
(***************************************************************************)
(* Model of tritiumcan-smoltcp's TCP Server (src/tritiumcan-smoltcp/src/   *)
(* tcp.rs): the session flags tx_start / rx_start / last_heartbeat, the    *)
(* four operations poll, send_heartbeat, send_frame and recv_frame, and    *)
(* the smoltcp TCP socket they drive (connection state, byte counts of the *)
(* send and receive ring buffers), together with the transport events the  *)
(* peer and the network can cause between two calls.                        *)
(***************************************************************************)
EXTENDS Integers, FiniteSets, Sequences, TLC

VARIABLES
    state,           \* smoltcp socket.state()
    tx_len,          \* bytes queued in the socket's tx_buffer
    rx_len,          \* bytes queued in the socket's rx_buffer
    tx_start,        \* Server.tx_start
    rx_start,        \* Server.rx_start
    last_heartbeat,  \* Server.last_heartbeat
    now,             \* the host's clock, handed to poll
    conn,            \* what happened on the current connection (history)
    last             \* the call just made and what it did (history)

vars == <<state, tx_len, rx_len, tx_start, rx_start, last_heartbeat, now, conn, last>>

----------------------------------------------------------------------------
(* Bounds of the model *)

\* capacity of the socket's tx_buffer, in bytes
TxCap == 34
\* capacity of the socket's rx_buffer, in bytes
RxCap == 44
\* the clock stops advancing here
MaxNow == 3
\* the clock of the steady-polling runs stops here
MaxCadenceNow == 9

(* Program constants *)

\* size_of::<Frame>(): arbitrationId u32 + flags u8 + dlc u8 + data [u8; 8]
FrameWidth == 14
\* size of Header: version u8 + busNumber u8 + clientIdentifier u32
HeaderWidth == 6
\* size of Packet { header, frame }
IdentityWidth == HeaderWidth + FrameWidth
\* the priming read's buffer, [0; 30]
PrimingWidth == 30
\* HEARTBEAT_INTERVAL, in clock ticks of the model
HEARTBEAT_INTERVAL == 2
\* a segment shorter than any record
ShortLen == 7

Min(a, b) == IF a < b THEN a ELSE b

----------------------------------------------------------------------------
(* The smoltcp socket, as the Server uses it *)

SockStates == {"Closed", "Listen", "SynReceived", "Established", "CloseWait", "LastAck"}

is_open(s) == s \notin {"Closed", "TimeWait"}

is_listening(s) == s = "Listen"

may_send(s) == s \in {"Established", "CloseWait"}

can_send(s, txl) == may_send(s) /\ txl < TxCap

may_recv(s, rxl) == s \in {"Established", "FinWait1", "FinWait2"} \/ rxl > 0

can_recv(s, rxl) == may_recv(s, rxl) /\ rxl > 0

\* send_slice: Err(InvalidState) unless may_send; else enqueues what fits
send_ok(s) == may_send(s)

send_enq(s, txl, n) == IF may_send(s) THEN Min(n, TxCap - txl) ELSE 0

\* recv_slice: Err unless may_recv; else dequeues up to n bytes
recv_ok(s, rxl) == may_recv(s, rxl)

recv_deq(s, rxl, n) == IF may_recv(s, rxl) THEN Min(n, rxl) ELSE 0

\* listen(PORT): Err(InvalidState) on an open socket; bound is whether the
\* bind went through
listen_ok(s, bound) == ~is_open(s) /\ bound

\* socket.close()
close(s) ==
    CASE s \in {"Listen", "SynSent"} -> "Closed"
      [] s \in {"SynReceived", "Established"} -> "FinWait1"
      [] s = "CloseWait" -> "LastAck"
      [] OTHER -> s

----------------------------------------------------------------------------
(* History *)

NewConn == [idCount |-> 0, pollW |-> FALSE, pollWE |-> FALSE,
            discards |-> 0, decoded |-> FALSE,
            hcPending |-> FALSE, lastPollHC |-> FALSE,
            hbSent |-> FALSE, rxOff |-> 0]

\* the shape of a call record, with nothing done
Blank(op) ==
    [op |-> op, ret |-> "Unit",
     preState |-> "Closed", preTx |-> FALSE, preRx |-> FALSE,
     preCanSend |-> FALSE, preCanRecv |-> FALSE, preLastHb |-> 0,
     preTxLen |-> 0, preRxLen |-> 0, preNow |-> 0,
     prePending |-> FALSE, prevPollHC |-> FALSE,
     listenTried |-> FALSE, listened |-> FALSE, halfClose |-> FALSE,
     idTried |-> FALSE, idBytes |-> 0,
     hbTried |-> FALSE, hbOk |-> FALSE, hbBytes |-> 0,
     hbTxStart |-> FALSE, hbCanSend |-> FALSE, hbAfterHb |-> FALSE,
     frTried |-> FALSE, frOk |-> FALSE, frBytes |-> 0,
     primed |-> FALSE, primeBytes |-> 0, readLen |-> 0, readAt |-> 0]

NoCall == Blank("none")

\* The peer's stream on a connection is its 30-byte greeting followed by
\* Frame records. A position in it is kept as the offset into the greeting,
\* or as PrimingWidth plus the offset into the Frame record it falls in.
StreamAdvance(off, n) ==
    IF off + n < PrimingWidth THEN off + n
    ELSE PrimingWidth + ((off + n - PrimingWidth) % FrameWidth)

\* a call record holding the state the call found
Call(op) ==
    [Blank(op) EXCEPT
        !.preState = state, !.preTx = tx_start, !.preRx = rx_start,
        !.preCanSend = can_send(state, tx_len), !.preCanRecv = can_recv(state, rx_len),
        !.preLastHb = last_heartbeat, !.preTxLen = tx_len, !.preRxLen = rx_len,
        !.preNow = now,
        !.prePending = conn.hcPending, !.prevPollHC = conn.lastPollHC]

----------------------------------------------------------------------------
Init ==
    /\ state = "Closed"
    /\ tx_len = 0
    /\ rx_len = 0
    /\ tx_start = FALSE
    /\ rx_start = FALSE
    /\ last_heartbeat = 0
    /\ now = 0
    /\ conn = NewConn
    /\ last = NoCall

----------------------------------------------------------------------------
(* Server::poll *)

\* mutant: the test of is_open() lost its negation
PollNeedsListenWhenOpen(s) == is_open(s) /\ ~is_listening(s)

\* mutant: listen whenever the socket is not listening
PollNeedsListenEager(s) == ~is_listening(s)

\* line 60-61: the socket is neither open nor listening
PollNeedsListen(s) == ~is_open(s) /\ ~is_listening(s)

\* mutant: the half-close test looks for the wrong state
PollHalfClosedWrongState(s) == s = "Closing"

\* line 70: the client closed
PollHalfClosed(s) == s = "CloseWait"

\* mutant: the identity packet is sent whatever tx_start is
PollSendsIdentityAlways(txs) == TRUE

\* line 78: the identity packet has not been sent
PollSendsIdentity(txs) == ~txs

\* mutant: the heartbeat is sent by every poll call
HeartbeatDueAlways(n, lhb) == TRUE

\* mutant: the heartbeat is due at the interval already
HeartbeatDueAtInterval(n, lhb) == n - lhb >= HEARTBEAT_INTERVAL

\* line 92: the heartbeat is due
HeartbeatDue(n, lhb) == n - lhb > HEARTBEAT_INTERVAL

\* write_heartbeat: send_slice(&packet.frame.0)
write_heartbeat_ok(s) == send_ok(s)

write_heartbeat_enq(s, txl) == send_enq(s, txl, FrameWidth)

\* mutant: the send's success is not recorded
PollStampNever(ok, n, lhb) == lhb

\* lines 93-99: last_heartbeat after the heartbeat send at time n
PollStamp(ok, n, lhb) == IF ok THEN n ELSE lhb

\* poll(sockets, t)
PollAt(listenOk, t) ==
    LET tryListen == PollNeedsListen(state)
        listened  == tryListen /\ listen_ok(state, listenOk)
        \* listen() resets the socket, buffers included, and sets Listen
        s1   == IF listened THEN "Listen" ELSE state
        txl1 == IF listened THEN 0 ELSE tx_len
        rxl1 == IF listened THEN 0 ELSE rx_len
        c0   == [conn EXCEPT !.hcPending = IF tryListen THEN FALSE ELSE @,
                             !.lastPollHC = FALSE,
                             !.pollW = @ \/ (can_send(state, tx_len) /\ ~tx_start),
                             !.pollWE = @ \/ (can_send(state, tx_len) /\ ~tx_start
                                              /\ state # "CloseWait")]
        l0   == [Call("poll") EXCEPT !.preNow = t, !.listenTried = tryListen,
                                     !.listened = listened]
    IN
    IF PollHalfClosed(s1)
    THEN /\ state' = close(s1)
         /\ tx_start' = FALSE
         /\ rx_start' = FALSE
         /\ tx_len' = txl1
         /\ rx_len' = rxl1
         /\ UNCHANGED last_heartbeat
         /\ conn' = [c0 EXCEPT !.hcPending = TRUE, !.lastPollHC = TRUE]
         /\ last' = [l0 EXCEPT !.halfClose = TRUE]
    ELSE IF can_send(s1, txl1)
    THEN LET idTry  == PollSendsIdentity(tx_start)
             idOk   == idTry /\ send_ok(s1)
             idEnq  == IF idTry THEN send_enq(s1, txl1, IdentityWidth) ELSE 0
             txs2   == IF idOk THEN TRUE ELSE tx_start
             txl2   == txl1 + idEnq
             hbTry  == HeartbeatDue(t, last_heartbeat)
             hbOk   == hbTry /\ write_heartbeat_ok(s1)
             hbEnq  == IF hbTry THEN write_heartbeat_enq(s1, txl2) ELSE 0
         IN
         /\ state' = s1
         /\ tx_start' = txs2
         /\ tx_len' = txl2 + hbEnq
         /\ rx_len' = rxl1
         /\ last_heartbeat' = IF hbTry THEN PollStamp(hbOk, t, last_heartbeat)
                                        ELSE last_heartbeat
         /\ UNCHANGED rx_start
         /\ conn' = [c0 EXCEPT !.idCount = IF idOk THEN @ + 1 ELSE @,
                               !.hbSent = @ \/ hbOk]
         /\ last' = [l0 EXCEPT !.idTried = idTry, !.idBytes = idEnq,
                               !.hbTried = hbTry, !.hbOk = hbOk, !.hbBytes = hbEnq,
                               !.hbAfterHb = hbOk /\ conn.hbSent,
                               !.hbTxStart = hbTry /\ txs2,
                               !.hbCanSend = hbTry /\ can_send(s1, txl2)]
    ELSE /\ state' = s1
         /\ tx_len' = txl1
         /\ rx_len' = rxl1
         /\ UNCHANGED <<tx_start, rx_start, last_heartbeat>>
         /\ conn' = c0
         /\ last' = l0

\* a poll call at the present time
Poll(listenOk) ==
    /\ PollAt(listenOk, now)
    /\ now' = now

----------------------------------------------------------------------------
(* Server::send_heartbeat *)

\* mutant: a successful send_heartbeat restarts the heartbeat interval
SendHeartbeatStamps ==
    LET ok  == write_heartbeat_ok(state)
        enq == write_heartbeat_enq(state, tx_len)
    IN
    /\ tx_len' = tx_len + enq
    /\ last_heartbeat' = IF ok THEN now ELSE last_heartbeat
    /\ UNCHANGED <<state, rx_len, tx_start, rx_start, now, conn>>
    /\ last' = [Call("send_heartbeat") EXCEPT
                    !.ret = IF ok THEN "Ok" ELSE "Err",
                    !.hbTried = TRUE, !.hbOk = ok, !.hbBytes = enq,
                    !.hbTxStart = tx_start,
                    !.hbCanSend = can_send(state, tx_len)]

SendHeartbeat ==
    LET ok  == write_heartbeat_ok(state)
        enq == write_heartbeat_enq(state, tx_len)
    IN
    /\ tx_len' = tx_len + enq
    /\ UNCHANGED <<state, rx_len, tx_start, rx_start, last_heartbeat, now, conn>>
    /\ last' = [Call("send_heartbeat") EXCEPT
                    !.ret = IF ok THEN "Ok" ELSE "Err",
                    !.hbTried = TRUE, !.hbOk = ok, !.hbBytes = enq,
                    !.hbTxStart = tx_start,
                    !.hbCanSend = can_send(state, tx_len)]

----------------------------------------------------------------------------
(* Server::send_frame *)

\* mutant: the guard forgets tx_start
SendFrameGuardNoTx(s, txl, txs) == can_send(s, txl)

\* line 136: the guard of the send
SendFrameGuard(s, txl, txs) == can_send(s, txl) /\ txs

\* lines 137-140: the `?` returns the send's error; after a send that
\* succeeded, control falls out of the `if` to line 140
SendFrameResult(guard, sendOk) ==
    IF guard /\ ~sendOk THEN "Err" ELSE "Err"

SendFrame ==
    LET guard == SendFrameGuard(state, tx_len, tx_start)
        ok    == guard /\ send_ok(state)
        enq   == IF guard THEN send_enq(state, tx_len, FrameWidth) ELSE 0
    IN
    /\ tx_len' = tx_len + enq
    /\ UNCHANGED <<state, rx_len, tx_start, rx_start, last_heartbeat, now, conn>>
    /\ last' = [Call("send_frame") EXCEPT
                    !.ret = SendFrameResult(guard, ok),
                    !.frTried = guard, !.frOk = ok, !.frBytes = enq]

----------------------------------------------------------------------------
(* Server::recv_frame *)

\* mutant: the priming read is never made
RecvPrimesNever(rxs) == FALSE

\* line 151: the priming read has not been made
RecvPrimes(rxs) == ~rxs

\* mutant: rx_start is not set by the priming read
RecvPrimedForgotten == FALSE

\* line 153: rx_start after the priming read
RecvPrimed == TRUE

\* mutant: any read that returned bytes is taken for a Frame
RecvDecodeAny(len) == IF len = 0 THEN "None" ELSE "Some"

\* mutant: the priming read takes one Frame-width
RecvPrimingReadFrame(s, rxl) == recv_deq(s, rxl, FrameWidth)

\* line 152: recv_slice(&mut [0; 30]), the bytes the priming read takes
RecvPrimingRead(s, rxl) == recv_deq(s, rxl, PrimingWidth)

\* lines 162-166: a full-width read is a Frame
RecvDecode(len) == IF len # FrameWidth THEN "None" ELSE "Some"

\* recv_frame; `track` says whether the position in the peer's stream is
\* recorded in the history
RecvFrameOn(track) ==
    IF can_recv(state, rx_len)
    THEN LET prime == RecvPrimes(rx_start)
             pdeq  == IF prime THEN RecvPrimingRead(state, rx_len) ELSE 0
             rxl1  == rx_len - pdeq
             rok   == recv_ok(state, rxl1)
             len   == recv_deq(state, rxl1, FrameWidth)
             r     == IF rok THEN RecvDecode(len) ELSE "Err"
         IN
         /\ rx_start' = IF prime THEN RecvPrimed ELSE rx_start
         /\ rx_len' = rxl1 - len
         /\ UNCHANGED <<state, tx_len, tx_start, last_heartbeat, now>>
         /\ conn' = [conn EXCEPT !.discards = IF prime THEN @ + 1 ELSE @,
                                 !.decoded = @ \/ r = "Some",
                                 !.rxOff = IF track THEN StreamAdvance(@, pdeq + len)
                                           ELSE @]
         /\ last' = [Call("recv_frame") EXCEPT
                        !.ret = r, !.primed = prime, !.primeBytes = pdeq,
                        !.readLen = len,
                        !.readAt = IF track THEN StreamAdvance(conn.rxOff, pdeq)
                                   ELSE 0]
    ELSE /\ UNCHANGED <<state, tx_len, rx_len, tx_start, rx_start, last_heartbeat, now, conn>>
         /\ last' = [Call("recv_frame") EXCEPT !.ret = "None"]

RecvFrame == RecvFrameOn(FALSE)

\* recv_frame, with the stream position recorded
RecvFrameStream == RecvFrameOn(TRUE)

----------------------------------------------------------------------------
(* Transport events: what the peer and the network do between two calls *)

Srv == <<tx_start, rx_start, last_heartbeat>>

\* a SYN reaches the listening socket
Accept ==
    /\ state = "Listen"
    /\ state' = "SynReceived"
    /\ conn' = NewConn
    /\ last' = NoCall
    /\ UNCHANGED <<tx_len, rx_len, now>>
    /\ UNCHANGED Srv

\* the handshake's final ACK
Establish ==
    /\ state = "SynReceived"
    /\ state' = "Established"
    /\ last' = NoCall
    /\ UNCHANGED <<tx_len, rx_len, now, conn>>
    /\ UNCHANGED Srv

\* a RST in SynReceived puts the socket back to Listen
SynReset ==
    /\ state = "SynReceived"
    /\ state' = "Listen"
    /\ last' = NoCall
    /\ UNCHANGED <<tx_len, rx_len, now, conn>>
    /\ UNCHANGED Srv

ArrivalSizes == {ShortLen, FrameWidth, PrimingWidth}

\* a data segment of k bytes is accepted into the rx_buffer
RecvData(k) ==
    /\ state = "Established"
    /\ k <= RxCap - rx_len
    /\ rx_len' = rx_len + k
    /\ last' = NoCall
    /\ UNCHANGED <<state, tx_len, now, conn>>
    /\ UNCHANGED Srv

\* the peer's FIN
PeerFin ==
    /\ state = "Established"
    /\ state' = "CloseWait"
    /\ last' = NoCall
    /\ UNCHANGED <<tx_len, rx_len, now, conn>>
    /\ UNCHANGED Srv

\* the peer acknowledges the data sent so far
AckData ==
    /\ state \in {"Established", "CloseWait", "LastAck"}
    /\ tx_len > 0
    /\ tx_len' = 0
    /\ last' = NoCall
    /\ UNCHANGED <<state, rx_len, now, conn>>
    /\ UNCHANGED Srv

\* the peer acknowledges our FIN (and so all data before it)
FinAcked ==
    /\ state = "LastAck"
    /\ state' = "Closed"
    /\ tx_len' = 0
    /\ last' = NoCall
    /\ UNCHANGED <<rx_len, now, conn>>
    /\ UNCHANGED Srv

\* a RST: the socket is reset and closed
Reset ==
    /\ state \in {"Established", "CloseWait", "LastAck"}
    /\ state' = "Closed"
    /\ tx_len' = 0
    /\ rx_len' = 0
    /\ last' = NoCall
    /\ UNCHANGED <<now, conn>>
    /\ UNCHANGED Srv

\* the socket's 3 s timeout expires: closed, buffers as they are
Timeout ==
    /\ state \in {"SynReceived", "Established", "CloseWait", "LastAck"}
    /\ state' = "Closed"
    /\ last' = NoCall
    /\ UNCHANGED <<tx_len, rx_len, now, conn>>
    /\ UNCHANGED Srv

Tick ==
    /\ now < MaxNow
    /\ now' = now + 1
    /\ last' = NoCall
    /\ UNCHANGED <<state, tx_len, rx_len, conn>>
    /\ UNCHANGED Srv

----------------------------------------------------------------------------
Next ==
    \/ \E listenOk \in BOOLEAN : Poll(listenOk)
    \/ SendHeartbeat
    \/ SendFrame
    \/ RecvFrame
    \/ Accept
    \/ Establish
    \/ SynReset
    \/ \E k \in ArrivalSizes : RecvData(k)
    \/ PeerFin
    \/ AckData
    \/ FinAcked
    \/ Reset
    \/ Timeout
    \/ Tick

Spec == Init /\ [][Next]_vars

----------------------------------------------------------------------------
(* Steady polling: one established connection, polled at a spacing below   *)
(* HEARTBEAT_INTERVAL whenever it is writable, with frame traffic and      *)
(* acknowledgements in between and no send_heartbeat call.                 *)

InitCadence ==
    /\ state = "Established"
    /\ tx_len = 0
    /\ rx_len = 0
    /\ tx_start = FALSE
    /\ rx_start = FALSE
    /\ last_heartbeat = 0
    /\ now \in 0..(HEARTBEAT_INTERVAL + 1)
    /\ conn = NewConn
    /\ last = NoCall

\* the host loop calls poll d ticks after the previous call
CadencePoll(d) ==
    /\ now + d <= MaxCadenceNow
    /\ can_send(state, tx_len)
    /\ PollAt(TRUE, now + d)
    /\ now' = now + d

NextCadence ==
    \/ \E d \in 0..(HEARTBEAT_INTERVAL - 1) : CadencePoll(d)
    \/ SendFrame
    \/ AckData
    \/ \E k \in ArrivalSizes : RecvData(k)
    \/ RecvFrame

SpecCadence == InitCadence /\ [][NextCadence]_vars

----------------------------------------------------------------------------
(* One connection's incoming stream: the peer's greeting and Frame records *)
(* arrive in segments of any of the sizes, and the host calls recv_frame   *)
(* and poll in between.                                                    *)

InitStream ==
    /\ state = "Established"
    /\ tx_len = 0
    /\ rx_len = 0
    /\ tx_start = FALSE
    /\ rx_start = FALSE
    /\ last_heartbeat = 0
    /\ now = 0
    /\ conn = NewConn
    /\ last = NoCall

NextStream ==
    \/ \E k \in ArrivalSizes : RecvData(k)
    \/ RecvFrameStream
    \/ Poll(TRUE)
    \/ SendFrame
    \/ AckData
    \/ Tick

SpecStream == InitStream /\ [][NextStream]_vars

TypeOK ==
    /\ state \in SockStates
    /\ tx_len \in 0..TxCap
    /\ rx_len \in 0..RxCap
    /\ tx_start \in BOOLEAN
    /\ rx_start \in BOOLEAN
    /\ last_heartbeat \in 0..MaxNow
    /\ now \in 0..MaxNow
    /\ last_heartbeat <= now

----------------------------------------------------------------------------
(* Claims *)

\* C1 (as claimed): a send_frame call made while the transport is writable and
\* tx_start is true, whose send_slice succeeds, returns Ok; it returns an
\* error only when the transport is not writable, tx_start is false or the
\* send failed.
C1_SendFrameReturnsOk ==
    last.op = "send_frame" =>
        /\ (last.preCanSend /\ last.preTx /\ last.frOk) => last.ret = "Ok"
        /\ last.ret = "Err" => (~last.preCanSend \/ ~last.preTx \/ ~last.frOk)

\* C2: a send_frame call made while tx_start is false or the transport is not
\* writable returns an error and enqueues no byte.
C2_GuardedSend ==
    (last.op = "send_frame" /\ (~last.preTx \/ ~last.preCanSend)) =>
        /\ last.ret = "Err"
        /\ last.frBytes = 0
        /\ tx_len = last.preTxLen

\* C2 witness: send_frame was called on a writable transport before the
\* identity packet was sent.
C2_Witness ==
    /\ last.op = "send_frame"
    /\ last.preState = "Established"
    /\ last.preCanSend
    /\ ~last.preTx

\* C3 (as claimed): on each connection the identity packet is sent at most
\* once, and exactly once iff poll was called at least once while the
\* transport was writable and tx_start false.
C3_IdentityOnceIffWritablePoll ==
    /\ conn.idCount <= 1
    /\ conn.idCount = 1 <=> conn.pollW

\* C3 (amended): on each connection the identity packet is handed to the
\* transport at most once, and exactly once iff poll was called at least once
\* while the transport was writable, not half-closed by the peer, and tx_start
\* false.
C3_IdentityOnce ==
    /\ conn.idCount <= 1
    /\ conn.idCount = 1 <=> conn.pollWE

\* C3 witness: the identity packet was sent on a connection that is not the
\* Server's first (rx_start is left over from an earlier connection).
C3_Witness ==
    /\ state = "Established"
    /\ conn.idCount = 1
    /\ conn.pollWE
    /\ rx_start
    /\ conn.discards = 0

\* C4 (as claimed): no Frame record is enqueued on a connection before the
\* identity packet was enqueued on that connection.
C4_IdentityBeforeFrames ==
    (last.op = "send_frame" /\ last.frBytes > 0) => conn.idCount >= 1

\* C5 (as claimed): a heartbeat record is enqueued, by poll or by
\* send_heartbeat, only while the transport is writable and tx_start is true.
C5_HeartbeatGuarded ==
    last.hbBytes > 0 => (last.hbCanSend /\ last.hbTxStart)

\* C6 (as claimed): send_frame enqueues a Frame and recv_frame returns a Frame
\* only when tx_start and rx_start are both true at the time of the call.
C6_FramesOnlyWhenActive ==
    (\/ (last.op = "send_frame" /\ last.frBytes > 0)
     \/ (last.op = "recv_frame" /\ last.ret = "Some"))
        => (last.preTx /\ last.preRx)

\* C6 (amended): send_frame enqueues a Frame only when the transport is
\* writable and tx_start is true at the time of the call; recv_frame returns a
\* Frame only when the transport is receivable at the time of the call and
\* rx_start is true when the Frame is read, having been true already or set by
\* the priming discard of that same call.
C6_FrameTraffic ==
    /\ (last.op = "send_frame" /\ last.frBytes > 0) =>
            (last.preTx /\ last.preCanSend)
    /\ (last.op = "recv_frame" /\ last.ret = "Some") =>
            (rx_start /\ last.preCanRecv /\ (last.preRx \/ last.primed))

\* C6 witness: a Frame was sent while rx_start was false, and a Frame was
\* received while tx_start was false.
C6_WitnessSend ==
    /\ last.op = "send_frame"
    /\ last.frBytes = FrameWidth
    /\ last.preTx
    /\ ~last.preRx

\* the bytes left in the rx_buffer after the priming read of the last call
LeftAfterPriming == last.preRxLen - last.primeBytes

\* C7 (as claimed): the first recv_frame call that finds the transport
\* receivable with rx_start false discards, sets rx_start and returns
\* Ok(None), never a Frame.
C7_PrimingReturnsNone ==
    (last.op = "recv_frame" /\ last.preCanRecv /\ ~last.preRx) =>
        (last.primed /\ rx_start /\ last.ret = "None")

\* C7 (amended): the first recv_frame call that finds the transport receivable
\* with rx_start false makes the priming read (up to 30 bytes), sets rx_start
\* and goes on to the ordinary read in the same call: it returns a Frame when
\* a Frame-width or more is left after the priming read, the transport's
\* error when nothing is left and the transport no longer receives, and
\* Ok(None) otherwise.
C7_PrimingCall ==
    (last.op = "recv_frame" /\ last.preCanRecv /\ ~last.preRx) =>
        /\ last.primed
        /\ rx_start
        /\ last.primeBytes = Min(PrimingWidth, last.preRxLen)
        /\ last.ret =
             IF LeftAfterPriming >= FrameWidth THEN "Some"
             ELSE IF LeftAfterPriming = 0 /\ last.preState # "Established" THEN "Err"
             ELSE "None"

\* C7 witness: the priming call returned a Frame.
C7_Witness ==
    /\ last.op = "recv_frame"
    /\ ~last.preRx
    /\ last.primed
    /\ last.primeBytes = PrimingWidth
    /\ last.ret = "Some"

\* C8 (as claimed): on every connection recv_frame makes the priming discard
\* exactly once before any Frame is decoded: never twice, and never zero times
\* once a Frame has been decoded.
C8_OneDiscardPerConnection ==
    /\ conn.discards <= 1
    /\ conn.decoded => conn.discards = 1

\* C9: a poll call that finds the transport in CloseWait closes the local
\* side, clears tx_start and rx_start, sends neither identity packet nor
\* heartbeat and leaves last_heartbeat as it was.
C9_HalfClosePoll ==
    (last.op = "poll" /\ last.preState = "CloseWait") =>
        /\ last.halfClose
        /\ state = "LastAck"
        /\ ~tx_start
        /\ ~rx_start
        /\ ~last.idTried /\ last.idBytes = 0
        /\ ~last.hbTried /\ last.hbBytes = 0
        /\ tx_len = last.preTxLen
        /\ last_heartbeat = last.preLastHb

\* C9 witness: poll found CloseWait with both flags set, the transport
\* writable and a heartbeat due.
C9_Witness ==
    /\ last.op = "poll"
    /\ last.preState = "CloseWait"
    /\ last.preTx
    /\ last.preRx
    /\ last.preCanSend
    /\ HeartbeatDue(last.preNow, last.preLastHb)

\* C10 (as claimed): the poll call that follows a poll call that handled a
\* peer half-close attempts the passive listen.
C10_NextPollListens ==
    (last.op = "poll" /\ last.prevPollHC) => last.listenTried

\* C10 (amended): after a poll call handled a peer half-close, a poll call
\* attempts the passive listen exactly when the transport has finished closing
\* (state Closed); a poll call made while it is still in LastAck attempts none.
C10_RearmOnceClosed ==
    (last.op = "poll" /\ last.prePending) =>
        (last.listenTried <=> last.preState = "Closed")

\* C10 witness: after a half-close, poll re-armed the listen.
C10_Witness ==
    /\ last.op = "poll"
    /\ last.prePending
    /\ last.listenTried
    /\ state = "Listen"

\* C11: under steady successful polling, two consecutive heartbeat sends made
\* by poll are at least HEARTBEAT_INTERVAL and less than 2 * HEARTBEAT_INTERVAL
\* apart.
C11_Cadence ==
    (last.op = "poll" /\ last.hbAfterHb) =>
        /\ last.preNow - last.preLastHb >= HEARTBEAT_INTERVAL
        /\ last.preNow - last.preLastHb < 2 * HEARTBEAT_INTERVAL

\* C11 witness: poll sent a heartbeat after an earlier one, later than the
\* interval.
C11_Witness ==
    /\ last.op = "poll"
    /\ last.hbAfterHb
    /\ last.hbBytes = FrameWidth
    /\ last.preLastHb > 0
    /\ last.preNow - last.preLastHb > HEARTBEAT_INTERVAL

\* C12: with rx_start true, a recv_frame call on a receivable transport makes
\* one read of a Frame-width: a full-width read is returned as a Frame, a
\* shorter one is dropped and the call returns Ok(None), never an error.
C12_ReadAfterPriming ==
    (last.op = "recv_frame" /\ last.preRx /\ last.preCanRecv) =>
        /\ ~last.primed /\ last.primeBytes = 0
        /\ last.readLen = Min(FrameWidth, last.preRxLen)
        /\ rx_len = last.preRxLen - last.readLen
        /\ last.ret = IF last.preRxLen >= FrameWidth THEN "Some" ELSE "None"

\* C12 witness: a read after the priming discard found less than a
\* Frame-width and dropped it.
C12_Witness ==
    /\ last.op = "recv_frame"
    /\ last.preRx
    /\ last.preRxLen = ShortLen
    /\ last.ret = "None"
    /\ rx_len = 0

\* C13: send_heartbeat leaves last_heartbeat, tx_start and rx_start as they
\* were, whether the send succeeds or fails.
C13_SendHeartbeatKeepsState ==
    last.op = "send_heartbeat" =>
        /\ last_heartbeat = last.preLastHb
        /\ tx_start = last.preTx
        /\ rx_start = last.preRx

\* C13 witness: send_heartbeat enqueued a heartbeat at a time later than
\* last_heartbeat.
C13_Witness ==
    /\ last.op = "send_heartbeat"
    /\ last.ret = "Ok"
    /\ last.hbBytes = FrameWidth
    /\ last.preNow > last.preLastHb

\* C14 (as claimed): a poll call on a writable transport that is not
\* half-closed attempts a heartbeat exactly when now - last_heartbeat is at
\* least HEARTBEAT_INTERVAL.
C14_DueAtInterval ==
    (last.op = "poll" /\ last.preCanSend /\ last.preState # "CloseWait") =>
        (last.hbTried <=> last.preNow - last.preLastHb >= HEARTBEAT_INTERVAL)

\* C14 (amended): a poll call on a writable transport that is not half-closed
\* attempts a heartbeat exactly when now - last_heartbeat is greater than
\* HEARTBEAT_INTERVAL; at a difference equal to it, it attempts none.
C14_DueAfterInterval ==
    (last.op = "poll" /\ last.preCanSend /\ last.preState # "CloseWait") =>
        (last.hbTried <=> last.preNow - last.preLastHb > HEARTBEAT_INTERVAL)

\* C14 witness: poll was called exactly one interval after last_heartbeat and
\* attempted no heartbeat.
C14_Witness ==
    /\ last.op = "poll"
    /\ last.preState = "Established"
    /\ last.preCanSend
    /\ last.preNow - last.preLastHb = HEARTBEAT_INTERVAL
    /\ ~last.hbTried

\* C15: in poll a heartbeat send that succeeds sets last_heartbeat to the
\* call's now; one that fails leaves last_heartbeat as it was, so that the
\* heartbeat is still due.
C15_StampOnSuccess ==
    (last.op = "poll" /\ last.hbTried) =>
        /\ last.hbOk => last_heartbeat = last.preNow
        /\ ~last.hbOk => /\ last_heartbeat = last.preLastHb
                         /\ last.preNow - last_heartbeat > HEARTBEAT_INTERVAL

\* C15 witness: poll sent a heartbeat and moved last_heartbeat forward.
C15_Witness ==
    /\ last.op = "poll"
    /\ last.hbTried
    /\ last.hbOk
    /\ last.hbBytes = FrameWidth
    /\ last.preLastHb < last.preNow
    /\ last_heartbeat = last.preNow

\* C16 (as claimed): the priming read takes exactly one Frame-width of bytes
\* out of the receive buffer, however many are buffered.
C16_PrimingTakesFrameWidth ==
    (last.op = "recv_frame" /\ last.primed) => last.primeBytes = FrameWidth

\* C16 (amended): the priming read takes 30 bytes out of the receive buffer
\* when at least 30 are buffered, and all the buffered bytes when fewer are.
C16_PrimingTakesUpToThirty ==
    (last.op = "recv_frame" /\ last.primed) =>
        /\ last.primeBytes = Min(PrimingWidth, last.preRxLen)
        /\ rx_len = last.preRxLen - last.primeBytes - last.readLen

\* C16 witness: the priming read found more than 30 bytes and took 30, which
\* is not a Frame-width.
C16_Witness ==
    /\ last.op = "recv_frame"
    /\ last.primed
    /\ last.preRxLen > PrimingWidth
    /\ last.primeBytes = PrimingWidth
    /\ last.primeBytes # FrameWidth

\* C17 (as claimed): once the priming discard was made on a connection, every
\* read of recv_frame starts at a Frame boundary of the peer's stream, so every
\* Frame returned is one whole Frame record of the peer.
C17_ReadsAligned ==
    (last.op = "recv_frame" /\ conn.discards >= 1 /\ last.readLen > 0) =>
        last.readAt = PrimingWidth

\* C18 (as claimed): every send of the Server enqueues the whole record or
\* nothing, and tx_start becomes true only after the whole identity packet
\* was enqueued.
C18_WholeRecords ==
    /\ last.idBytes \in {0, IdentityWidth}
    /\ last.hbBytes \in {0, FrameWidth}
    /\ last.frBytes \in {0, FrameWidth}
    /\ (last.op = "poll" /\ ~last.preTx /\ tx_start) => last.idBytes = IdentityWidth

\* C19 (as claimed): whenever the transport has no connection (closed or
\* listening), tx_start and rx_start are both false.
C19_FlagsClearWithoutConnection ==
    state \in {"Closed", "Listen"} => (~tx_start /\ ~rx_start)

\* C20: poll attempts the passive listen exactly when it finds the transport
\* closed (neither open nor listening); a listen that fails leaves the socket
\* and the session as they were, so the next poll attempts it again, and one
\* that succeeds leaves the transport listening.
C20_ListenWhenClosed ==
    last.op = "poll" =>
        /\ last.listenTried <=> last.preState = "Closed"
        /\ (last.listenTried /\ ~last.listened) =>
                /\ state = "Closed"
                /\ tx_start = last.preTx
                /\ rx_start = last.preRx
                /\ last_heartbeat = last.preLastHb
                /\ tx_len = last.preTxLen
                /\ rx_len = last.preRxLen
        /\ (last.listenTried /\ last.listened) => state = "Listen"

\* C20 witness: a listen attempt failed on a closed transport whose session
\* flags were left set by the connection before.
C20_Witness ==
    /\ last.op = "poll"
    /\ last.listenTried
    /\ ~last.listened
    /\ state = "Closed"
    /\ tx_start
    /\ rx_start

====
